---- MODULE Spec2Model ----
(***************************************************************************)
(* A model of suncalc-py (src/suncalc/suncalc.py): time conversion, the    *)
(* sun and moon formulas, and the scalar/batch evaluation of get_position, *)
(* get_times and getMoonIllumination.                                      *)
(*                                                                         *)
(* Numbers.  The program computes in IEEE doubles; the model computes in   *)
(* fixed point on 32-bit integers:                                         *)
(*   - angles in radians are counted in milliradians (PI == 3142);         *)
(*   - angles in degrees are counted in millidegrees;                      *)
(*   - sines and cosines are counted in 1/10000 (Unit);                    *)
(*   - Julian days are counted in ticks of two minutes (DayTicks a day);   *)
(*   - instants are counted in milliseconds since the Unix epoch, as in    *)
(*     the program, and drawn from the first weeks of 1970 so that they    *)
(*     fit 32 bits;                                                        *)
(*   - NaN is a value of its own that every operation propagates.          *)
(* Each formula keeps the shape it has in the source.                      *)
(***************************************************************************)
EXTENDS Integers, Sequences, FiniteSets, TLC

VARIABLES
    pd,       \* whether `import pandas` succeeded (lines 33-36)
    tzOffset, \* the local UTC offset of the process, in ms (used by datetime.timestamp)
    times,    \* the times table get_times is called with (DEFAULT_TIMES plus custom entries)
    args,     \* the arguments of the calls: [date, a, b, height]
    op,       \* the last operation called
    ret,      \* its outcome: what it returned or raised
    prev      \* the outcome of the last get_times call made before the table last grew

vars == <<pd, tzOffset, times, args, op, ret, prev>>

----------------------------------------------------------------------------
(* Bounds of the model. *)

MaxN == 2        \* longest batch
MaxCustom == 1   \* custom entries added to the times table

----------------------------------------------------------------------------
(* Fixed-point arithmetic. *)

Unit == 10^4                 \* sines and cosines: 1.0
MilliDeg == 10^3             \* one degree, in millidegrees
DayTicks == 24 * 30          \* one day, in ticks of Julian time
NaN == -(2^30)               \* IEEE not-a-number: no finite value of the model equals it
NaT == NaN - 1               \* the not-a-time value of numpy and pandas

IsNaN(x) == x = NaN

\* floor(a * b / c) for b >= 0, c > 0 without leaving 32 bits
MulDiv(a, b, c) == (a \div c) * b + ((a % c) * b) \div c

\* x / y rounded to the nearest integer, halves to even (np.round)
RoundDiv(x, y) ==
    LET q == x \div y
        r == x % y
    IN  IF 2 * r > y THEN q + 1
        ELSE IF 2 * r < y THEN q
        ELSE IF q % 2 = 0 THEN q ELSE q + 1

Abs(x) == IF x < 0 THEN -x ELSE x

\* largest r with r * r <= x
RECURSIVE SqrtBisect(_, _, _)
SqrtBisect(x, lo, hi) ==
    IF lo >= hi THEN lo
    ELSE LET mid == (lo + hi + 1) \div 2
         IN  IF mid * mid <= x THEN SqrtBisect(x, mid, hi) ELSE SqrtBisect(x, lo, mid - 1)

isqrt(x) == SqrtBisect(x, 0, 46340)

----------------------------------------------------------------------------
(* shortcuts for easier to read formulas (lines 38-46) *)

PI == 3142

\* rad * x: x in millidegrees, the product in milliradians
rad(x) == MulDiv(x, PI, 180 * MilliDeg)

\* the sine of x milliradians, 0 <= x <= PI/2, by its Taylor polynomial
SinQ(x) ==
    LET x2 == (x * x) \div 100
        t1 == 10 * x
        t3 == (t1 * x2) \div 60000
        t5 == (t3 * x2) \div 200000
        t7 == (t5 * x2) \div 420000
        t9 == (t7 * x2) \div 720000
        s  == t1 - t3 + t5 - t7 + t9
    IN  IF s > Unit THEN Unit ELSE s

SinTab == [x \in 0..(2 * PI - 1) |->
    IF x <= PI \div 2 THEN SinQ(x)
    ELSE IF x <= PI THEN SinQ(PI - x)
    ELSE IF x <= PI + PI \div 2 THEN -SinQ(x - PI)
    ELSE -SinQ(2 * PI - x)]

sin(x) == SinTab[x % (2 * PI)]

cos(x) == SinTab[(x + PI \div 2) % (2 * PI)]

\* tan(x), in Unit; a zero cosine gives the largest value of the model
tan(x) == IF cos(x) = 0 THEN (IF sin(x) < 0 THEN -(Unit * Unit) ELSE Unit * Unit)
          ELSE (sin(x) * Unit) \div cos(x)

RECURSIVE AsinBisect(_, _, _)
AsinBisect(v, lo, hi) ==
    IF lo >= hi THEN lo
    ELSE LET mid == (lo + hi) \div 2
         IN  IF SinQ(mid) >= v THEN AsinBisect(v, lo, mid) ELSE AsinBisect(v, mid + 1, hi)

AsinTab == [v \in 0..Unit |-> IF v = Unit THEN PI \div 2 ELSE AsinBisect(v, 0, PI \div 2)]

\* np.arcsin: NaN outside [-1, 1]
asin(v) ==
    IF IsNaN(v) \/ v > Unit \/ v < -Unit THEN NaN
    ELSE IF v >= 0 THEN AsinTab[v] ELSE -AsinTab[-v]

\* np.arccos: NaN outside [-1, 1] (a RuntimeWarning, no exception)
acos(v) ==
    IF IsNaN(v) \/ v > Unit \/ v < -Unit THEN NaN
    ELSE PI \div 2 - asin(v)

\* np.arctan2(y0, x0); operands too large to square are scaled down together
atan(y0, x0) ==
    LET m == IF Abs(x0) >= Abs(y0) THEN Abs(x0) ELSE Abs(y0)
        k == m \div (2 * Unit) + 1
        x == x0 \div k
        y == y0 \div k
        r == isqrt(x * x + y * y)
    IN  IF r = 0 THEN 0
        ELSE LET c == (x * Unit) \div r
                 a == acos(IF c > Unit THEN Unit ELSE IF c < -Unit THEN -Unit ELSE c)
             IN  IF y0 >= 0 THEN a ELSE -a

----------------------------------------------------------------------------
(* sun times configuration (angle, morning name, evening name), lines 48-56 *)

DEFAULT_TIMES == <<
    <<-833, "sunrise", "sunset">>,
    <<-300, "sunrise_end", "sunset_start">>,
    <<-6000, "dawn", "dusk">>,
    <<-12000, "nautical_dawn", "nautical_dusk">>,
    <<-18000, "night_end", "night">>,
    <<6000, "golden_hour_end", "golden_hour">> >>

(* date/time constants and conversions (lines 58-61) *)

dayMs == 1000 * 60 * 60 * 24
J1970 == 2440588
J2000 == 2451545

TickMs == dayMs \div DayTicks   \* one tick of Julian time, in ms

----------------------------------------------------------------------------
(* Values.  A number is a numpy scalar (dim 0, one element) or a           *)
(* one-dimensional array (dim 1); a date carries, besides, the Python type *)
(* it has (kind) and whether it is timezone-aware (tz).  Its elements are  *)
(* milliseconds since the epoch: the UTC instant of an aware date, the     *)
(* wall-clock reading of a naive one.                                      *)

Scalar(x) == [dim |-> 0, v |-> <<x>>]
Array(s) == [dim |-> 1, v |-> s]
Date(kind, tz, dim, v) == [kind |-> kind, tz |-> tz, dim |-> dim, v |-> v]

Return(x) == [st |-> "return", exc |-> "", val |-> x]
Raise(e) == [st |-> "raise", exc |-> e, val |-> <<>>]

\* numpy broadcasting of two shapes of at most one dimension
Compat(a, b) == Len(a.v) = Len(b.v) \/ Len(a.v) = 1 \/ Len(b.v) = 1
BLen(a, b) == IF Len(a.v) >= Len(b.v) THEN Len(a.v) ELSE Len(b.v)
BDim(a, b) == IF a.dim >= b.dim THEN a.dim ELSE b.dim
At(a, i) == a.v[IF Len(a.v) = 1 THEN 1 ELSE i]

\* an elementwise numpy operation of one, two and three operands
ufunc1(F(_), a) == [dim |-> a.dim, v |-> [i \in 1..Len(a.v) |-> F(a.v[i])]]
ufunc2(F(_, _), a, b) ==
    [dim |-> BDim(a, b), v |-> [i \in 1..BLen(a, b) |-> F(At(a, i), At(b, i))]]
ufunc3(F(_, _, _), a, b, c) ==
    LET ab == ufunc2(LAMBDA x, y : x, a, b)
    IN  [dim |-> BDim(ab, c),
         v |-> [i \in 1..BLen(ab, c) |-> F(At(a, i), At(b, i), At(c, i))]]

----------------------------------------------------------------------------
(* to_milliseconds (lines 64-86) *)

ScalarKinds == {"datetime", "Timestamp", "datetime64", "NaT", "str", "int"}

\* isinstance(date, datetime): pd.Timestamp is a subclass of datetime.datetime
isinstance_datetime(date) == date.kind \in {"datetime", "Timestamp"}

\* pd.api.types.is_datetime64_any_dtype(date): the dtype of date, if it has one, is a datetime64
is_datetime64_any_dtype(date) ==
    date.kind \in {"Series", "DatetimeIndex", "ndarray_dt64", "datetime64"}

isinstance_Timestamp(date) == date.kind = "Timestamp"

\* whether date.dtype exists: Python's str, int, list and datetime have none
hasattr_dtype(date) ==
    date.kind \in {"Series", "DatetimeIndex", "ndarray_dt64", "ndarray_obj",
                   "ndarray_float", "datetime64"}

\* np.issubdtype(date.dtype, np.datetime64)
issubdtype_datetime64(date) == date.kind \in {"ndarray_dt64", "datetime64"}

\* date.timestamp() * 1000: datetime.datetime reads a naive date as local
\* time, pd.Timestamp reads it as UTC
timestamp_ms(date) ==
    IF date.tz = "naive" /\ date.kind = "datetime"
    THEN date.v[1] - tzOffset
    ELSE date.v[1]

\* Timestamp.to_numpy()
to_numpy(date) == Date("datetime64", date.tz, 0, date.v)

\* pd.to_datetime(date).astype('int64') / 10 ** 6: an array of numbers is
\* read as nanoseconds since the epoch
last_ditch(date) ==
    IF date.kind = "ndarray_float"
    THEN Array([i \in 1..Len(date.v) |-> date.v[i] \div 10^6])
    ELSE Array(date.v)

to_milliseconds(date) ==
    IF isinstance_datetime(date)
    THEN Return(Scalar(timestamp_ms(date)))
    ELSE IF pd /\ is_datetime64_any_dtype(date)
    THEN \* the int64 of a datetime64[ns] is nanoseconds: / 10 ** 6 gives ms
         Return([dim |-> date.dim, v |-> date.v])
    ELSE LET date1 == IF pd /\ isinstance_Timestamp(date) THEN to_numpy(date) ELSE date
         IN  IF ~hasattr_dtype(date1)
             THEN Raise("AttributeError")      \* line 79: date.dtype
             ELSE IF issubdtype_datetime64(date1)
             THEN Return([dim |-> date1.dim, v |-> date1.v])
             ELSE IF pd
             THEN Return(last_ditch(date1))
             ELSE Raise("ValueError")          \* 'Unknown date type'

(* to_julian (lines 89-90) *)

julian_of_ms(ms) == ms \div TickMs - DayTicks \div 2 + J1970 * DayTicks

to_julian(date) ==
    LET r == to_milliseconds(date)
    IN  IF r.st = "raise" THEN r ELSE Return(ufunc1(julian_of_ms, r.val))

(* from_julian (lines 93-117) *)

ms_of_julian(j) ==
    IF IsNaN(j) THEN NaN ELSE (j + DayTicks \div 2 - J1970 * DayTicks) * TickMs

\* a float of milliseconds as a time: NaN becomes NaT (pd.to_datetime,
\* astype('datetime64[ns, UTC]') and the np.isnan test of lines 113 and 117)
time_of_ms(x) == IF IsNaN(x) THEN NaT ELSE x

\* a faulty from_julian: a single value becomes a pd.Timestamp also when it
\* is an array of one element
from_julian_squeezed(j) ==
    LET ms_date == ufunc1(ms_of_julian, j)
        t == [i \in 1..Len(ms_date.v) |-> time_of_ms(ms_date.v[i])]
    IN  IF Len(ms_date.v) = 1
        THEN Date(IF t[1] = NaT THEN "NaT" ELSE "Timestamp", "naive", 0, t)
        ELSE Date(IF pd THEN "Series" ELSE "ndarray_obj", IF pd THEN "utc" ELSE "naive", 1, t)

from_julian(j) ==
    LET ms_date == ufunc1(ms_of_julian, j)
        t == [i \in 1..Len(ms_date.v) |-> time_of_ms(ms_date.v[i])]
    IN  IF pd
        THEN IF Len(ms_date.v) = 1          \* np.prod(np.array(ms_date).shape) == 1
             THEN IF ms_date.dim = 0
                  THEN Date(IF t[1] = NaT THEN "NaT" ELSE "Timestamp", "naive", 0, t)
                  ELSE Date("DatetimeIndex", "naive", 1, t)
             ELSE Date("Series", "utc", 1, t)
        ELSE IF ms_date.dim = 1             \* ms_date is iterable
             THEN Date("ndarray_obj", "naive", 1, t)
             ELSE Date(IF t[1] = NaT THEN "datetime64" ELSE "datetime", "naive", 0, t)

(* to_days (lines 120-121) *)

to_days(date) ==
    LET r == to_julian(date)
    IN  IF r.st = "raise" THEN r
        ELSE Return(ufunc1(LAMBDA j : j - J2000 * DayTicks, r.val))

----------------------------------------------------------------------------
(* general calculations for position (lines 124-158) *)

\* obliquity of the Earth
e == rad(23440)

right_ascension(l, b) ==
    atan((sin(l) * cos(e)) \div Unit - (tan(b) * sin(e)) \div Unit, cos(l))

declination(l, b) ==
    asin((sin(b) * cos(e)) \div Unit + (((cos(b) * sin(e)) \div Unit) * sin(l)) \div Unit)

azimuth(H, phi, dec) ==
    atan(sin(H), (cos(H) * sin(phi)) \div Unit - (tan(dec) * cos(phi)) \div Unit)

altitude(H, phi, dec) ==
    asin((sin(phi) * sin(dec)) \div Unit + (((cos(phi) * cos(dec)) \div Unit) * cos(H)) \div Unit)

\* rad * (280.16 + 360.9856235 * d) - lw, d in ticks; the whole turns of
\* 360 * d are dropped (the result is only used under sin and cos)
sidereal_time(d, lw) ==
    rad(280160 + (d % DayTicks) * ((360 * MilliDeg) \div DayTicks)
        + MulDiv(d, 9856, 10 * DayTicks)) - lw

(* general sun calculations (lines 161-182) *)

solar_mean_anomaly(d) == rad(357529 + MulDiv(d, 9856, 10 * DayTicks))

ecliptic_longitude(M) ==
    LET \* equation of center
        C == rad((19148 * sin(M)) \div (10 * Unit) + (20 * sin(2 * M)) \div Unit
                 + (3 * sin(3 * M)) \div (10 * Unit))
        \* perihelion of the Earth
        P == rad(102937)
    IN  M + C + P + PI

sun_coords(d) ==
    LET M == solar_mean_anomaly(d)
        L == ecliptic_longitude(M)
    IN  [dec |-> declination(L, 0), ra |-> right_ascension(L, 0)]

(* calculations for sun times (lines 185-214) *)

\* 0.0009 of a day, in ticks
J0 == RoundDiv(9 * DayTicks, 10^4)

julian_cycle(d, lw) == RoundDiv(d - J0 - (lw * DayTicks) \div (2 * PI), DayTicks)

\* n is a whole number of days; the result is in ticks
approx_transit(Ht, lw, n) ==
    IF IsNaN(Ht) THEN NaN
    ELSE J0 + ((Ht + lw) * DayTicks) \div (2 * PI) + n * DayTicks

solar_transit_j(ds, M, L) ==
    IF IsNaN(ds) THEN NaN
    ELSE J2000 * DayTicks + ds + (53 * DayTicks * sin(M)) \div (10^4 * Unit)
         - (69 * DayTicks * sin(2 * L)) \div (10^4 * Unit)

\* the argument of the arccosine of hour_angle; a zero divisor gives an
\* infinity or NaN, which the arccosine turns into NaN like any value
\* outside [-1, 1]
hour_angle_arg(h, phi, d) ==
    LET num == sin(h) - (sin(phi) * sin(d)) \div Unit
        den == (cos(phi) * cos(d)) \div Unit
    IN  IF den = 0 THEN NaN ELSE (num * Unit) \div den

\* a faulty hour_angle: the argument is clipped into [-1, 1] before the
\* arccosine, so that the sun always rises and sets
hour_angle_clipped(h, phi, d) ==
    LET x == hour_angle_arg(h, phi, d)
    IN  IF IsNaN(x) THEN NaN
        ELSE acos(IF x > Unit THEN Unit ELSE IF x < -Unit THEN -Unit ELSE x)

hour_angle(h, phi, d) == acos(hour_angle_arg(h, phi, d))

\* -2.076 * sqrt(height) / 60, in millidegrees
observer_angle(height) == -((2076 * isqrt(height * 10^4)) \div (60 * 100))

get_set_j(h, lw, phi, dec, n, M, L) ==
    LET w == hour_angle(h, phi, dec)
        a == approx_transit(w, lw, n)
    IN  solar_transit_j(a, M, L)

----------------------------------------------------------------------------
(* get_position (lines 217-229).  The second parameter is lng, the third   *)
(* lat.                                                                    *)

get_position(date, lng, lat) ==
    LET lw == ufunc1(LAMBDA x : rad(-x), lng)
        phi == ufunc1(rad, lat)
        dr == to_days(date)
    IN  IF dr.st = "raise" THEN dr
        ELSE LET d == dr.val
                 c == ufunc1(sun_coords, d)
             IN  IF ~Compat(d, lw)
                 THEN Raise("ValueError")     \* operands could not be broadcast together
                 ELSE LET H == ufunc3(LAMBDA di, lwi, ci : sidereal_time(di, lwi) - ci.ra,
                                      d, lw, c)
                      IN  IF ~Compat(H, phi)
                          THEN Raise("ValueError")
                          ELSE Return(
                              [azimuth |-> ufunc3(LAMBDA Hi, p, ci : azimuth(Hi, p, ci.dec),
                                                  H, phi, c),
                               altitude |-> ufunc3(LAMBDA Hi, p, ci : altitude(Hi, p, ci.dec),
                                                   H, phi, c)])

----------------------------------------------------------------------------
(* get_times (lines 232-297).  The second parameter is lng, the third lat. *)

\* len(x) succeeds: x is not a scalar
has_len(x) == x.dim = 1

\* np.array(date), line 253: a list of datetimes and a timezone-aware
\* Series become arrays of objects, a naive Series a datetime64[ns] array
np_array(date) ==
    IF date.kind = "list" \/ (date.kind = "Series" /\ date.tz = "utc")
    THEN Date("ndarray_obj", date.tz, 1, date.v)
    ELSE IF date.kind = "Series"
    THEN Date("ndarray_dt64", "naive", 1, date.v)
    ELSE date

\* result[key] = value
dict_set(result, key, value) ==
    [k \in DOMAIN result \cup {key} |-> IF k = key THEN value ELSE result[k]]

\* a faulty loop: only the morning name of an entry is stored
RECURSIVE times_loop_mornings(_, _, _, _, _)
times_loop_mornings(result, idx, tms, Jrise, Jset) ==
    IF idx > Len(tms) THEN result
    ELSE times_loop_mornings(
        dict_set(result, tms[idx][2], from_julian(Jrise[idx])),
        idx + 1, tms, Jrise, Jset)

\* a faulty loop: it runs over the entries of DEFAULT_TIMES only
RECURSIVE times_loop_defaults(_, _, _, _, _)
times_loop_defaults(result, idx, tms, Jrise, Jset) ==
    IF idx > Len(tms) \/ idx > Len(DEFAULT_TIMES) THEN result
    ELSE times_loop_defaults(
        dict_set(dict_set(result, tms[idx][2], from_julian(Jrise[idx])),
                 tms[idx][3], from_julian(Jset[idx])),
        idx + 1, tms, Jrise, Jset)

\* the loop of lines 289-295; Jrise[idx] is row idx of the grid in batch
\* mode (Jrise[idx, :]) and element idx in scalar mode
RECURSIVE times_loop(_, _, _, _, _)
times_loop(result, idx, tms, Jrise, Jset) ==
    IF idx > Len(tms) THEN result
    ELSE times_loop(
        dict_set(dict_set(result, tms[idx][2], from_julian(Jrise[idx])),
                 tms[idx][3], from_julian(Jset[idx])),
        idx + 1, tms, Jrise, Jset)

get_times(date0, lng, lat, height, tms) ==
    LET array_input == has_len(date0) /\ has_len(lat) /\ has_len(lng)
        date == IF array_input THEN np_array(date0) ELSE date0
        lw == ufunc1(LAMBDA x : rad(-x), lng)
        phi == ufunc1(rad, lat)
        dh == observer_angle(height)
        dr == to_days(date)
    IN  IF dr.st = "raise" THEN dr
        ELSE IF ~Compat(dr.val, lw)
        THEN Raise("ValueError")     \* line 265: operands could not be broadcast together
        ELSE
        LET d == dr.val
            n == ufunc2(julian_cycle, d, lw)
            ds == ufunc2(LAMBDA lwi, ni : approx_transit(0, lwi, ni), lw, n)
            M == ufunc1(solar_mean_anomaly, ds)
            L == ufunc1(ecliptic_longitude, M)
            dec == ufunc1(LAMBDA Li : declination(Li, 0), L)
            Jnoon == ufunc3(solar_transit_j, ds, M, L)
            result == [k \in {"solar_noon", "nadir"} |->
                          IF k = "solar_noon" THEN from_julian(Jnoon)
                          ELSE from_julian(ufunc1(LAMBDA j : j - DayTicks \div 2, Jnoon))]
            angles == [k \in 1..Len(tms) |-> tms[k][1]]
            h0 == [k \in 1..Len(tms) |-> rad(angles[k] + dh)]
        IN  IF Len(tms) > 0 /\ ~Compat(phi, dec)
            THEN Raise("ValueError") \* line 286, in hour_angle
            ELSE
            LET \* the grid of len(times) rows: h0 is a column in batch mode
                Jset == [k \in 1..Len(tms) |->
                            [dim |-> IF array_input THEN 1 ELSE 0,
                             v |-> [i \in 1..BLen(phi, dec) |->
                                       get_set_j(h0[k], At(lw, i), At(phi, i), At(dec, i),
                                                 At(n, i), At(M, i), At(L, i))]]]
                Jrise == [k \in 1..Len(tms) |->
                            ufunc2(LAMBDA jn, js : IF IsNaN(js) THEN NaN ELSE jn - (js - jn),
                                   Jnoon, Jset[k])]
            IN  Return(times_loop(result, 1, tms, Jrise, Jset))

----------------------------------------------------------------------------
(* moon calculations (lines 304-322) *)

moon_coords(d) ==
    LET \* ecliptic longitude
        L == rad(218316 + MulDiv(d, 131764, 10 * DayTicks))
        \* mean anomaly
        M == rad(134963 + MulDiv(d, 130650, 10 * DayTicks))
        \* mean distance
        F == rad(93272 + MulDiv(d, 132294, 10 * DayTicks))
        \* longitude
        l == L + rad((6289 * sin(M)) \div Unit)
        \* latitude
        b == rad((5128 * sin(F)) \div Unit)
        \* distance to the moon in km
        dt == 385001 - (20905 * cos(M)) \div Unit
    IN  [ra |-> right_ascension(l, b), dec |-> declination(l, b), dist |-> dt]

(* getMoonIllumination (lines 355-376) *)

\* distance from Earth to Sun in km
sdist == 149598000

\* Python's float * tuple: "can't multiply sequence by non-int of type 'float'"
float_times_tuple(x, t) == Raise("TypeError")

getMoonIllumination(date) ==
    LET dr == to_days(date)
    IN  IF dr.st = "raise" THEN dr
        ELSE
        LET d == dr.val
            s == ufunc1(sun_coords, d)
            m == ufunc1(moon_coords, d)
            phi == ufunc2(LAMBDA si, mi :
                       acos((sin(si.dec) * sin(mi.dec)) \div Unit
                            + (((cos(si.dec) * cos(mi.dec)) \div Unit)
                               * cos(si.ra - mi.ra)) \div Unit),
                       s, m)
            \* line 367 ends in a comma: inc is a tuple of one element
            inc == << ufunc2(LAMBDA p, mi :
                         atan(MulDiv(sdist, sin(p), Unit),
                              mi.dist - MulDiv(sdist, cos(p), Unit)),
                         phi, m) >>
            angle == ufunc2(LAMBDA si, mi :
                         atan((cos(si.dec) * sin(si.ra - mi.ra)) \div Unit,
                              (sin(si.dec) * cos(mi.dec)) \div Unit
                              - (((cos(si.dec) * sin(mi.dec)) \div Unit)
                                 * cos(si.ra - mi.ra)) \div Unit),
                         s, m)
            \* np.cos of the tuple is an array of one row
            fraction == [k \in 1..Len(inc) |->
                            ufunc1(LAMBDA x : (Unit + cos(x)) \div 2, inc[k])]
            phase == float_times_tuple(Unit \div 2, inc)
        IN  IF phase.st = "raise" THEN phase
            ELSE Return([fraction |-> fraction, phase |-> phase.val, angle |-> angle])

----------------------------------------------------------------------------
(* add_custom_time: appends a twilight definition to the table that the    *)
(* later get_times calls are given.                                        *)

add_custom_time(tms, angle, morning, evening) == Append(tms, <<angle, morning, evening>>)

----------------------------------------------------------------------------
(* The inputs the calls are made with. *)

HourMs == dayMs \div 24

\* 1970-01-10 00:00 and 15:00 UTC
Instants == {9 * dayMs, 9 * dayMs + 15 * HourMs}

Heights == {0, 2000}

\* the local UTC offsets of the process: UTC and UTC+3
Offsets == {0, 3 * HourMs}

\* the second and third argument of a scalar call, in millidegrees; at
\* 80 N the sun stays below the horizon in January
ScalarPairs == {<<30500, 50500>>, <<30500, 80000>>, <<50500, 30500>>}

CustomTimes == {<<-4000, "blue_dawn", "blue_dusk">>, <<-10000, "sunrise", "late_dusk">>}

Copies(x, n) == [i \in 1..n |-> x]

ScalarDates ==
    {Date(k[1], k[2], 0, <<t>>) :
        k \in {<<"datetime", "utc">>, <<"datetime", "naive">>,
               <<"Timestamp", "naive">>, <<"datetime64", "naive">>},
        t \in Instants}

BatchKinds == {<<"list", "utc">>, <<"list", "naive">>, <<"Series", "utc">>,
               <<"Series", "naive">>, <<"ndarray_dt64", "naive">>}

BatchDates ==
    {Date(k[1], k[2], 1, Copies(9 * dayMs, n)) : k \in BatchKinds, n \in 1..MaxN}

\* inputs that are no dates: a string, an integer, an array of floats
OtherDates ==
    {Date("str", "", 0, <<0>>), Date("int", "", 0, <<9 * dayMs>>),
     Date("ndarray_float", "", 1, <<9 * dayMs, 9 * dayMs>>)}

ScalarArgs ==
    {[date |-> d, a |-> Scalar(p[1]), b |-> Scalar(p[2]), height |-> h] :
        d \in ScalarDates, p \in ScalarPairs, h \in Heights}

\* batches of one length: n copies of a date and of a second argument, and
\* any third arguments
BatchArgs ==
    UNION {{[date |-> Date(k[1], k[2], 1, Copies(9 * dayMs, n)),
             a |-> Array(Copies(30500, n)), b |-> Array(y), height |-> h] :
               k \in BatchKinds, y \in [1..n -> {50500, 80000}], h \in Heights} :
           n \in 1..MaxN}

\* batches whose lengths are not all equal
MismatchedArgs ==
    {[date |-> Date("ndarray_dt64", "naive", 1, Copies(9 * dayMs, l[1])),
      a |-> Array(Copies(30500, l[2])), b |-> Array(Copies(50500, l[3])),
      height |-> 0] :
        l \in {m \in (1..MaxN) \X (1..MaxN) \X (1..MaxN) : ~(m[1] = m[2] /\ m[2] = m[3])}}

\* the dates alone, for the calls that take nothing else
DateArgs ==
    {[date |-> d, a |-> Scalar(0), b |-> Scalar(0), height |-> 0] :
        d \in ScalarDates \cup BatchDates \cup OtherDates}

\* pandas objects exist only where pandas is installed
NeedsPandas(date) == date.kind \in {"Timestamp", "Series", "DatetimeIndex"}

\* the local UTC offset is read only by datetime.timestamp() of a naive datetime
ReadsLocalTime(date) == date.kind \in {"datetime", "list"} /\ date.tz = "naive"

None == [st |-> "none", exc |-> "", val |-> <<>>]

----------------------------------------------------------------------------
(* The state machine: the module is loaded, then its functions are called. *)

Loaded(argset) ==
    /\ pd \in BOOLEAN
    /\ tzOffset \in Offsets
    /\ times = DEFAULT_TIMES
    /\ args \in argset
    /\ NeedsPandas(args.date) => pd
    /\ tzOffset # 0 => ReadsLocalTime(args.date)
    /\ op = "import"
    /\ ret = None
    /\ prev = None

GetPosition ==
    /\ op' = "get_position"
    /\ ret' = get_position(args.date, args.a, args.b)
    /\ UNCHANGED <<pd, tzOffset, times, args, prev>>

GetTimes ==
    /\ op' = "get_times"
    /\ ret' = get_times(args.date, args.a, args.b, args.height, times)
    /\ UNCHANGED <<pd, tzOffset, times, args, prev>>

\* prev keeps what get_times returned just before the table grew
AddCustomTime ==
    /\ Len(times) < Len(DEFAULT_TIMES) + MaxCustom
    /\ \E t \in CustomTimes : times' = add_custom_time(times, t[1], t[2], t[3])
    /\ op' = "add_custom_time"
    /\ ret' = Return(<<>>)
    /\ prev' = IF op = "get_times" THEN ret ELSE None
    /\ UNCHANGED <<pd, tzOffset, args>>

GetMoonIllumination ==
    /\ op' = "getMoonIllumination"
    /\ ret' = getMoonIllumination(args.date)
    /\ UNCHANGED <<pd, tzOffset, times, args, prev>>

ToJulian ==
    /\ op' = "to_julian"
    /\ ret' = to_julian(args.date)
    /\ UNCHANGED <<pd, tzOffset, times, args, prev>>

\* from_julian of the Julian days the last to_julian returned
FromJulian ==
    /\ op = "to_julian"
    /\ ret.st = "return"
    /\ op' = "from_julian"
    /\ ret' = Return(from_julian(ret.val))
    /\ UNCHANGED <<pd, tzOffset, times, args, prev>>

\* to_julian of the dates the last from_julian returned
ToJulianAgain ==
    /\ op = "from_julian"
    /\ op' = "to_julian_again"
    /\ ret' = to_julian(ret.val)
    /\ UNCHANGED <<pd, tzOffset, times, args, prev>>

(* The sun: get_position and get_times, with a times table that grows. *)

Init == Loaded(ScalarArgs \cup BatchArgs \cup MismatchedArgs)

Next ==
    \/ GetPosition
    \/ GetTimes
    \/ AddCustomTime

Spec == Init /\ [][Next]_vars

(* Time conversion and the moon: the calls that take a date alone. *)

ConvInit == Loaded(DateArgs)

ConvNext ==
    \/ ToJulian
    \/ FromJulian
    \/ ToJulianAgain
    \/ GetMoonIllumination

ConvSpec == ConvInit /\ [][ConvNext]_vars

----------------------------------------------------------------------------
(* Properties.                                                             *)

\* the rows of a call: one for scalars, the common length for a batch
IsScalarCall == args.date.dim = 0 /\ args.a.dim = 0 /\ args.b.dim = 0
IsBatchCall == args.date.dim = 1 /\ args.a.dim = 1 /\ args.b.dim = 1
EqualLengths == Len(args.date.v) = Len(args.a.v) /\ Len(args.a.v) = Len(args.b.v)
Returned(o) == op = o /\ ret.st = "return"

\* C1: get_position and get_times take the location as (latitude,
\* longitude): the second argument a of a call is the latitude and the
\* third argument b the longitude, so that the outcome of the call is the
\* one computed with lat = a and lng = b.
C1_LatitudeThenLongitude ==
    /\ op = "get_position" => ret = get_position(args.date, args.b, args.a)
    /\ op = "get_times" =>
           ret = get_times(args.date, args.b, args.a, args.height, times)

\* every entry of the times table has its morning and its evening name
\* among the keys
HasTableKeys(result) ==
    \A k \in 1..Len(times) : {times[k][2], times[k][3]} \subseteq DOMAIN result

\* C2, as stated: the mapping get_times returns contains the keys solarNoon
\* and nadir, and the morning and evening name of every entry of the times
\* table.
C2_KeysAsStated ==
    Returned("get_times") =>
        {"solarNoon", "nadir"} \subseteq DOMAIN ret.val /\ HasTableKeys(ret.val)

\* C2, amended: the mapping get_times returns contains the keys solar_noon
\* and nadir, and the morning and evening name of every entry of the times
\* table.
C2_Keys ==
    Returned("get_times") =>
        {"solar_noon", "nadir"} \subseteq DOMAIN ret.val /\ HasTableKeys(ret.val)

\* C2's case: a batch call under a table with a custom entry has returned
C2_Witness ==
    /\ Returned("get_times")
    /\ IsBatchCall
    /\ Len(times) > Len(DEFAULT_TIMES)

\* the date get_times computes with (line 253)
CoercedDate == IF IsBatchCall THEN np_array(args.date) ELSE args.date

\* the argument of the arccosine of hour_angle that get_times computes for
\* entry k of the times table and row i, the second argument of the call
\* being lng and the third lat
ArccosArg(k, i) ==
    LET lw == rad(-At(args.a, i))
        phi == rad(At(args.b, i))
        d == At(to_days(CoercedDate).val, i)
        n == julian_cycle(d, lw)
        M == solar_mean_anomaly(approx_transit(0, lw, n))
        dec == declination(ecliptic_longitude(M), 0)
    IN  hour_angle_arg(rad(times[k][1] + observer_angle(args.height)), phi, dec)

OutOfDomain(x) == IsNaN(x) \/ x > Unit \/ x < -Unit

\* no later entry of the table stores under the names of entry k
LastUnderItsNames(k) ==
    \A m \in (k + 1)..Len(times) :
        {times[m][2], times[m][3]} \cap {times[k][2], times[k][3]} = {}

\* C3: in get_times, for every row and every twilight definition whose
\* arccosine argument lies outside [-1, 1] the morning and the evening
\* value of the row are the not-a-time sentinel, for every row whose
\* argument lies inside they are real instants, solar noon and nadir are
\* real instants for every row, and no exception comes from the hour
\* angle: the call raises only when the date cannot be converted or the
\* shapes do not fit.  The values of a definition are read under its
\* names, which no later entry of the table stores under.
C3_NotATime ==
    /\ Returned("get_times") =>
           \A i \in 1..Len(ret.val["solar_noon"].v) :
               /\ ret.val["solar_noon"].v[i] # NaT
               /\ ret.val["nadir"].v[i] # NaT
               /\ \A k \in 1..Len(times) :
                      LastUnderItsNames(k) =>
                          LET out == OutOfDomain(ArccosArg(k, i))
                          IN  /\ (ret.val[times[k][2]].v[i] = NaT) <=> out
                              /\ (ret.val[times[k][3]].v[i] = NaT) <=> out
    /\ (op = "get_times" /\ ret.st = "raise") =>
           \/ to_days(CoercedDate).st = "raise"
           \/ IsBatchCall /\ ~EqualLengths

\* C3's case: a batch has returned in which the sun rises in one row and
\* does not in another
C3_Witness ==
    /\ Returned("get_times")
    /\ IsBatchCall
    /\ \E i, j \in 1..Len(ret.val["sunrise"].v) :
           /\ OutOfDomain(ArccosArg(1, i))
           /\ ret.val["sunrise"].v[i] = NaT
           /\ ~OutOfDomain(ArccosArg(1, j))
           /\ ret.val["sunrise"].v[j] # NaT

\* a batch made of copies of one row
IsCopies ==
    /\ IsBatchCall
    /\ EqualLengths
    /\ \A i \in 1..Len(args.b.v) : args.b.v[i] = args.b.v[1]

\* the element of a batch of dates as a scalar date
ElementKind(kind) ==
    CASE kind = "list" -> "datetime"
      [] kind = "Series" -> "Timestamp"
      [] OTHER -> "datetime64"

Element(date) == Date(ElementKind(date.kind), date.tz, 0, <<date.v[1]>>)

\* every key of the batch result holds N values equal to the scalar one
SameRows(batch, scalar) ==
    /\ DOMAIN batch = DOMAIN scalar
    /\ \A key \in DOMAIN batch :
           /\ Len(batch[key].v) = Len(args.b.v)
           /\ \A i \in 1..Len(batch[key].v) : batch[key].v[i] = scalar[key].v[1]

\* C4: get_times, and likewise get_position, called on batches made of N
\* copies of (instant, lat, lng) returns for every key N values, each equal
\* to the value the scalar call on (instant, lat, lng) returns for the key.
C4_BatchOfCopies ==
    IsCopies =>
        LET date == Element(args.date)
            a == Scalar(args.a.v[1])
            b == Scalar(args.b.v[1])
        IN  /\ op = "get_times" =>
                   LET one == get_times(date, a, b, args.height, times)
                   IN  one.st = "return" =>
                           ret.st = "return" /\ SameRows(ret.val, one.val)
            /\ op = "get_position" =>
                   LET one == get_position(date, a, b)
                   IN  one.st = "return" =>
                           ret.st = "return" /\ SameRows(ret.val, one.val)

\* C5: get_times mirrors the shape of its input: called with scalars, every
\* key of the result holds a single instant; called with batches of length
\* N, every key holds a sequence of exactly N instants, for N = 1 and for
\* rows that are not-a-time as well.
C5_ShapeMirrorsInput ==
    Returned("get_times") =>
        /\ IsScalarCall =>
               \A key \in DOMAIN ret.val :
                   ret.val[key].dim = 0 /\ Len(ret.val[key].v) = 1
        /\ (IsBatchCall /\ EqualLengths) =>
               \A key \in DOMAIN ret.val :
                   ret.val[key].dim = 1 /\ Len(ret.val[key].v) = Len(args.date.v)

\* C5's case: a batch of one row, whose sunrise is not-a-time, has returned
\* where pandas is installed
C5_Witness ==
    /\ Returned("get_times")
    /\ IsBatchCall
    /\ pd
    /\ Len(args.date.v) = 1
    /\ ret.val["sunrise"].dim = 1
    /\ ret.val["sunrise"].v = <<NaT>>

\* get_times has returned before and after the last entry of the table was
\* added
AddedBetween ==
    /\ Returned("get_times")
    /\ prev.st = "return"
    /\ Len(times) > Len(DEFAULT_TIMES)

Added == times[Len(times)]

\* C6, as stated: a definition added via add_custom_time appears as two new
\* keys in the result of the next get_times call, and every key that
\* existed before has the value get_times returned for it before the
\* addition.
C6_TwoNewKeysAsStated ==
    AddedBetween =>
        /\ {Added[2], Added[3]} \subseteq DOMAIN ret.val \ DOMAIN prev.val
        /\ Added[2] # Added[3]
        /\ \A key \in DOMAIN prev.val : ret.val[key] = prev.val[key]

\* C6, amended: a definition added via add_custom_time whose morning and
\* evening name are two names that are no keys of the result yet appears
\* as two new keys in the result of the next get_times call, and every key
\* that existed before has the value get_times returned for it before the
\* addition.
C6_TwoNewKeys ==
    (/\ AddedBetween
     /\ Added[2] # Added[3]
     /\ {Added[2], Added[3]} \cap DOMAIN prev.val = {}) =>
        /\ DOMAIN ret.val = DOMAIN prev.val \cup {Added[2], Added[3]}
        /\ \A key \in DOMAIN prev.val : ret.val[key] = prev.val[key]

\* C6's case: get_times has returned a real blue_dawn after that definition
\* was added to a table get_times had returned without it
C6_Witness ==
    /\ AddedBetween
    /\ Added[2] = "blue_dawn"
    /\ "blue_dawn" \notin DOMAIN prev.val
    /\ ret.val["blue_dawn"].v[1] # NaT

\* C7: get_times called with batches whose lengths are not all equal fails
\* (with whatever error stands for ShapeMismatch): it never returns a
\* result obtained by broadcasting one input against the others.
C7_ShapeMismatch ==
    (op = "get_times" /\ IsBatchCall /\ ~EqualLengths) => ret.st = "raise"

\* the dates the program recognises
IsDate(date) ==
    date.kind \in {"datetime", "Timestamp", "datetime64", "list", "Series",
                   "DatetimeIndex", "ndarray_dt64"}

InUnitInterval(x) == \A i \in 1..Len(x.v) : 0 <= x.v[i] /\ x.v[i] <= Unit

\* C8: for every instant, getMoonIllumination returns a result whose
\* fraction is in [0, 1] and whose phase is in [0, 1].
C8_FractionAndPhase ==
    (op = "getMoonIllumination" /\ args.date.dim = 0 /\ IsDate(args.date)) =>
        /\ ret.st = "return"
        /\ InUnitInterval(ret.val.fraction)
        /\ InUnitInterval(ret.val.phase)

\* C9: to_julian, given an input that is no recognised date, fails with the
\* 'Unknown date type' ValueError of to_milliseconds: it neither returns
\* nor fails with another error, with and without pandas.
C9_UnknownDateType ==
    (op = "to_julian" /\ ~IsDate(args.date)) =>
        ret.st = "raise" /\ ret.exc = "ValueError"

\* C10: for every valid instant, scalar or batch, in every representation,
\* to_julian(from_julian(to_julian(instant))) is to_julian(instant), within
\* a millisecond (less than a tick of the model).
C10_RoundTrip ==
    (op = "to_julian_again" /\ IsDate(args.date)) =>
        /\ ret.st = "return"
        /\ ret.val.v = to_julian(args.date).val.v

====
